---- MODULE Spec2Model ----
(***************************************************************************)
(* A model of cppmatch.cpp: the Levenshtein distance, the BK-tree          *)
(* (insert, search, the index form and the binary file form) and the       *)
(* calls a client of the module can make.                                  *)
(*                                                                         *)
(* Strings are sequences of byte values.  A tree is a heap of BKNode       *)
(* records addressed by 1-based ids (the shared_ptr targets) and a root    *)
(* id, 0 standing for the null pointer; a child entry is <<distance, id>>. *)
(***************************************************************************)
EXTENDS Integers, Sequences, FiniteSets, TLC

VARIABLES tree, disk, out

vars == <<tree, disk, out>>

-----------------------------------------------------------------------------
(* Bounds of the exploration *)

\* strings handed to levenshtein() directly have at most this many bytes
MaxLevLen == 3
\* a tree holds at most this many nodes
MaxNodes == 4
\* the small search radii are 0..MaxSmallDist
MaxSmallDist == 2

\* the bytes 'a' and 'b'
Alphabet == {97, 98}

StrSet(n) == UNION {[1..k -> Alphabet] : k \in 0..n}

LevStrings == StrSet(MaxLevLen)

\* the vocabulary of terms and queries: "", a, b, aa, ab, ba, aba
Terms == {<<>>, <<97>>, <<98>>, <<97, 97>>, <<97, 98>>, <<98, 97>>, <<97, 98, 97>>}

\* the range of int
INT_MAX == 2147483647
INT_MIN == (-INT_MAX) - 1

MaxDists == {INT_MIN, -1} \cup (0..MaxSmallDist) \cup {INT_MAX}

\* what signed overflow (undefined behaviour) does in a build: the sum wraps,
\* or the compiler folds the comparison as if no overflow could happen
Builds == {"wrap", "exact"}

-----------------------------------------------------------------------------
(* levenshtein, lines 16-40 *)

Min2(a, b) == IF a <= b THEN a ELSE b

Min3(a, b, c) == Min2(a, Min2(b, c))

\* a faulty variant: the substitution cost is 1 even for equal characters
levenshtein_costAlwaysOne(s1, s2) ==
    LET m == Len(s1)
        n == Len(s2)
        dp[i \in 0..m, j \in 0..n] ==
            IF j = 0 THEN i
            ELSE IF i = 0 THEN j
            ELSE Min3(dp[i-1, j] + 1, dp[i, j-1] + 1, dp[i-1, j-1] + 1)
    IN  IF m = 0 THEN n ELSE IF n = 0 THEN m ELSE dp[m, n]

levenshtein(s1, s2) ==
    LET m == Len(s1)
        n == Len(s2)
        dp[i \in 0..m, j \in 0..n] ==
            IF j = 0 THEN i
            ELSE IF i = 0 THEN j
            ELSE LET cost == IF s1[i] = s2[j] THEN 0 ELSE 1
                 IN  Min3(dp[i-1, j] + 1,       \* deletion
                          dp[i, j-1] + 1,       \* insertion
                          dp[i-1, j-1] + cost)  \* substitution
    IN  IF m = 0 THEN n ELSE IF n = 0 THEN m ELSE dp[m, n]

-----------------------------------------------------------------------------
(* The tree *)

NoOut == [op |-> "none"]
NoErr == [kind |-> "none", what |-> ""]
NoTree == [nodes |-> <<>>, root |-> -1]
NoFile == <<-1>>

\* BKTree(): root(nullptr)
EmptyTree == [nodes |-> <<>>, root |-> 0]

\* BKNode(t): term(t), no children
BKNode(t) == [term |-> t, children |-> <<>>]

StoredTerms(t) == {t.nodes[i].term : i \in 1..Len(t.nodes)}

-----------------------------------------------------------------------------
(* insert, lines 55-75 and 128-130 *)

SetMin(S) == CHOOSE x \in S : \A y \in S : x <= y

\* the positions of the child entries of `node` whose distance is `dist`
childrenAt(heap, node, dist) ==
    {k \in 1..Len(heap[node].children) : heap[node].children[k][1] = dist}

\* a faulty variant: the `dist == 0` return is missing
RECURSIVE insertHelper_noDuplicateCheck(_, _, _)
insertHelper_noDuplicateCheck(t, node, term) ==
    IF node = 0
    THEN [nodes |-> Append(t.nodes, BKNode(term)), root |-> Len(t.nodes) + 1]
    ELSE LET dist == levenshtein(t.nodes[node].term, term)
             hit == childrenAt(t.nodes, node, dist)
         IN  IF hit # {}
             THEN insertHelper_noDuplicateCheck(
                      t, t.nodes[node].children[SetMin(hit)][2], term)
             ELSE [t EXCEPT !.nodes =
                      [Append(t.nodes, BKNode(term)) EXCEPT ![node].children =
                          Append(@, <<dist, Len(t.nodes) + 1>>)]]

\* a faulty variant: the loop over the children never finds the entry to descend into
insertHelper_noDescent(t, node, term) ==
    IF node = 0
    THEN [nodes |-> Append(t.nodes, BKNode(term)), root |-> Len(t.nodes) + 1]
    ELSE LET dist == levenshtein(t.nodes[node].term, term)
         IN  IF dist = 0 THEN t
             ELSE [t EXCEPT !.nodes =
                      [Append(t.nodes, BKNode(term)) EXCEPT ![node].children =
                          Append(@, <<dist, Len(t.nodes) + 1>>)]]

\* insertHelper(node, term) on the tree t; node is the id the pointer slot
\* holds (0: the slot is null, which only the root slot ever is)
RECURSIVE insertHelper(_, _, _)
insertHelper(t, node, term) ==
    IF node = 0
    THEN [nodes |-> Append(t.nodes, BKNode(term)), root |-> Len(t.nodes) + 1]
    ELSE LET dist == levenshtein(t.nodes[node].term, term)
             hit == childrenAt(t.nodes, node, dist)
         IN  IF dist = 0 THEN t   \* duplicate
             ELSE IF hit # {}
             THEN insertHelper(t, t.nodes[node].children[SetMin(hit)][2], term)
             ELSE [t EXCEPT !.nodes =
                      [Append(t.nodes, BKNode(term)) EXCEPT ![node].children =
                          Append(@, <<dist, Len(t.nodes) + 1>>)]]

insert(t, term) == insertHelper(t, t.root, term)

-----------------------------------------------------------------------------
(* search, lines 77-95 and 132-144 *)

\* a + b and a - b in int: the mathematical value when it fits, else the
\* value two's complement wrapping gives
AddOverflows(a, b) ==
    \/ b > 0 /\ a > INT_MAX - b
    \/ b < 0 /\ a < INT_MIN - b

Add32(a, b) ==
    IF b > 0 /\ a > INT_MAX - b THEN ((a - (INT_MAX - b)) - 1) + INT_MIN
    ELSE IF b < 0 /\ a < INT_MIN - b THEN ((a - (INT_MIN - b)) + 1) + INT_MAX
    ELSE a + b

SubOverflows(a, b) ==
    \/ b < 0 /\ a > INT_MAX + b
    \/ b > 0 /\ a < INT_MIN + b

Sub32(a, b) ==
    IF b < 0 /\ a > INT_MAX + b THEN ((a - (INT_MAX + b)) - 1) + INT_MIN
    ELSE IF b > 0 /\ a < INT_MIN + b THEN ((a - (INT_MIN + b)) + 1) + INT_MAX
    ELSE a - b

\* int minDist = dist - maxDist;
minDist(dist, maxDist) == Sub32(dist, maxDist)

\* int maxDistEdge = dist + maxDist;
maxDistEdge(dist, maxDist) == Add32(dist, maxDist)

\* w >= a - b and w <= a + b over the integers, for w, a, b in int
geDifference(w, a, b) ==
    IF b < 0 /\ a > INT_MAX + b THEN FALSE
    ELSE IF b > 0 /\ a < INT_MIN + b THEN TRUE
    ELSE w >= a - b

leSum(w, a, b) ==
    IF b > 0 /\ a > INT_MAX - b THEN TRUE
    ELSE IF b < 0 /\ a < INT_MIN - b THEN FALSE
    ELSE w <= a + b

\* child.first >= minDist && child.first <= maxDistEdge.  Where the sum or the
\* difference overflows the behaviour is undefined: a build either compares
\* with the wrapped value or compares as if the arithmetic were exact.
descends(w, dist, maxDist, build) ==
    IF build = "wrap"
    THEN w >= minDist(dist, maxDist) /\ w <= maxDistEdge(dist, maxDist)
    ELSE geDifference(w, dist, maxDist) /\ leSum(w, dist, maxDist)

\* the results searchHelper pushes, in the order it pushes them
RECURSIVE searchHelper(_, _, _, _, _)
searchHelper(heap, node, query, maxDist, build) ==
    IF node = 0 THEN <<>>
    ELSE LET dist == levenshtein(heap[node].term, query)
             here == IF dist <= maxDist THEN << <<heap[node].term, dist>> >> ELSE <<>>
             ch == heap[node].children
             below[k \in 1..(Len(ch) + 1)] ==
                 IF k > Len(ch) THEN <<>>
                 ELSE (IF descends(ch[k][1], dist, maxDist, build)
                       THEN searchHelper(heap, ch[k][2], query, maxDist, build)
                       ELSE <<>>) \o below[k + 1]
         IN  here \o below[1]

\* std::string's operator<
strLess(s, t) ==
    \/ \E i \in 1..Min2(Len(s), Len(t)) :
          /\ s[i] < t[i]
          /\ \A j \in 1..(i - 1) : s[j] = t[j]
    \/ /\ Len(s) < Len(t)
       /\ \A j \in 1..Len(s) : s[j] = t[j]

\* the comparator of search: by distance, then alphabetically
resultLess(a, b) ==
    IF a[2] # b[2] THEN a[2] < b[2] ELSE strLess(a[1], b[1])

\* std::sort with resultLess
RECURSIVE sortResults(_)
sortResults(rs) ==
    IF rs = <<>> THEN <<>>
    ELSE LET rest == sortResults(Tail(rs))
             x == Head(rs)
             n == Cardinality({k \in 1..Len(rest) : ~resultLess(x, rest[k])})
         IN  SubSeq(rest, 1, n) \o <<x>> \o SubSeq(rest, n + 1, Len(rest))

search(t, query, maxDist, build) ==
    sortResults(searchHelper(t.nodes, t.root, query, maxDist, build))

-----------------------------------------------------------------------------
(* The index form: collectNodes, to_serializable, from_serializable,
   lines 97-123 and 146-203.  A record is <<term, childList>> and a child
   tuple <<distance, index>>, the index 0-based. *)

RuntimeError(what) == [kind |-> "runtime_error", what |-> what]
OutOfRange(what) == [kind |-> "out_of_range", what |-> what]

InSeq(x, sq) == \E k \in 1..Len(sq) : sq[k] = x

\* the loop of collectNodes from position i on: nodes is the vector, and a
\* node is in the index map exactly when it is in the vector
RECURSIVE collectFrom(_, _, _)
collectFrom(heap, nodes, i) ==
    IF i > Len(nodes) THEN nodes
    ELSE LET ch == heap[nodes[i]].children
             scan[k \in 0..Len(ch)] ==
                 IF k = 0 THEN nodes
                 ELSE IF InSeq(ch[k][2], scan[k - 1]) THEN scan[k - 1]
                 ELSE Append(scan[k - 1], ch[k][2])
         IN  collectFrom(heap, scan[Len(ch)], i + 1)

\* the ids of the nodes in the order collectNodes numbers them
collectNodes(t) ==
    IF t.root = 0 THEN <<>> ELSE collectFrom(t.nodes, <<t.root>>, 1)

\* index[ptr]
indexOf(nodes, id) == (CHOOSE k \in 1..Len(nodes) : nodes[k] = id) - 1

\* a faulty variant: the child indices are written 1-based
to_serializable_oneBased(t) ==
    LET nodes == collectNodes(t) IN
    [i \in 1..Len(nodes) |->
        LET node == t.nodes[nodes[i]] IN
        <<node.term,
          [k \in 1..Len(node.children) |->
              <<node.children[k][1], indexOf(nodes, node.children[k][2]) + 1>>]>>]

to_serializable(t) ==
    LET nodes == collectNodes(t) IN
    [i \in 1..Len(nodes) |->
        LET node == t.nodes[nodes[i]] IN
        <<node.term,
          [k \in 1..Len(node.children) |->
              <<node.children[k][1], indexOf(nodes, node.children[k][2])>>]>>]

\* a faulty variant: a child entry whose index is out of range is skipped
from_serializable_skipsBadIndex(data) ==
    LET length == Len(data) IN
    IF length <= 0 THEN [err |-> NoErr, tree |-> EmptyTree]
    ELSE [err |-> NoErr,
          tree |-> [nodes |-> [i \in 1..length |->
                                 [term |-> data[i][1],
                                  children |->
                                     SelectSeq([k \in 1..Len(data[i][2]) |->
                                                   <<data[i][2][k][1], data[i][2][k][2] + 1>>],
                                               LAMBDA e : e[2] <= length)]],
                    root |-> 1]]

\* the result of from_serializable(data): the error thrown, or the tree
from_serializable(data) ==
    LET length == Len(data) IN
    IF length <= 0 THEN [err |-> NoErr, tree |-> EmptyTree]
    ELSE IF \E i \in 1..length : \E k \in 1..Len(data[i][2]) :
                data[i][2][k][2] >= length
    THEN [err |-> OutOfRange("BKTree.from_serializable: child index out of range"),
          tree |-> NoTree]
    ELSE [err |-> NoErr,
          tree |-> [nodes |-> [i \in 1..length |->
                                 [term |-> data[i][1],
                                  children |-> [k \in 1..Len(data[i][2]) |->
                                      <<data[i][2][k][1], data[i][2][k][2] + 1>>]]],
                    root |-> 1]]

\* the lists a client may hand to from_serializable, given the list `data`
\* that to_serializable returned: that list, the list with one child index
\* replaced, and the list with one child tuple added
SerializableInputs(data) ==
    LET N == Len(data) IN
    {data}
    \cup UNION {{[data EXCEPT ![i][2][k][2] = j] :
                    k \in 1..Len(data[i][2]), j \in 0..N} : i \in 1..N}
    \cup {[data EXCEPT ![i][2] = Append(@, <<1, j>>)] : i \in 1..N, j \in 0..N}

-----------------------------------------------------------------------------
(* The file form: save and load, lines 205-307.  A file is the sequence of
   its bytes. *)

\* const char magic[8] = {'B', 'K', 'T', 'R', 'E', 'E', '1', 0}
Magic == <<66, 75, 84, 82, 69, 69, 49, 0>>

\* the four bytes out.write(reinterpret_cast<const char*>(&v), 4) writes for
\* a 32-bit v on a little-endian machine
U32Bytes(v) ==
    <<v % 256, (v \div 256) % 256, (v \div 65536) % 256, (v \div 16777216) % 256>>

RECURSIVE Concat(_)
Concat(sqs) == IF sqs = <<>> THEN <<>> ELSE Head(sqs) \o Concat(Tail(sqs))

\* the bytes save writes for the tree t
saveBytes(t) ==
    LET nodes == collectNodes(t)
        count == Len(nodes)
        record(i) ==
            LET node == t.nodes[nodes[i]] IN
            U32Bytes(Len(node.term)) \o node.term
            \o U32Bytes(Len(node.children))
            \o Concat([k \in 1..Len(node.children) |->
                          U32Bytes(node.children[k][1])
                          \o U32Bytes(indexOf(nodes, node.children[k][2]))])
    IN  Magic \o U32Bytes(count) \o Concat([i \in 1..count |-> record(i)])

\* in.read of n bytes after pos bytes were consumed leaves the stream good
canRead(file, pos, n) == pos + n <= Len(file)

\* the std::uint32_t that in.read stores from the 4 bytes after pos
readU32(file, pos) ==
    file[pos + 1] + 256 * file[pos + 2] + 65536 * file[pos + 3]
    + 16777216 * file[pos + 4]

LoadError(what) == [err |-> RuntimeError(what), tree |-> NoTree]

\* the loop over the child entries of one node, lines 289-301, from entry c
\* on; acc holds the entries pushed so far
RECURSIVE loadChildren(_, _, _, _, _, _)
loadChildren(file, pos, c, childCount, count, acc) ==
    IF c > childCount THEN [err |-> NoErr, pos |-> pos, children |-> acc]
    ELSE IF ~canRead(file, pos, 8)
    THEN [err |-> RuntimeError("BKTree.load: failed to read child entry")]
    ELSE LET distance == readU32(file, pos)
             childIndex == readU32(file, pos + 4)
         IN  IF childIndex >= count
             THEN [err |-> RuntimeError("BKTree.load: child index out of range")]
             ELSE loadChildren(file, pos + 8, c + 1, childCount, count,
                               Append(acc, <<distance, childIndex + 1>>))

\* a faulty variant: the stream is not tested after the child count is read, so a
\* failed read leaves childCount at 0
RECURSIVE loadNodes_childCountUnchecked(_, _, _, _, _)
loadNodes_childCountUnchecked(file, pos, i, count, nodes) ==
    IF i > count
    THEN [err |-> NoErr, tree |-> [nodes |-> nodes, root |-> IF count > 0 THEN 1 ELSE 0]]
    ELSE IF ~canRead(file, pos, 4)
    THEN LoadError("BKTree.load: failed to read term length")
    ELSE LET termLen == readU32(file, pos) IN
         IF ~canRead(file, pos + 4, termLen)
         THEN LoadError("BKTree.load: failed to read term data")
         ELSE LET term == SubSeq(file, pos + 5, pos + 4 + termLen)
                  p == pos + 4 + termLen
              IN  IF ~canRead(file, p, 4)
                  THEN loadNodes_childCountUnchecked(
                           file, Len(file), i + 1, count,
                           [nodes EXCEPT ![i] = [term |-> term, children |-> <<>>]])
                  ELSE LET r == loadChildren(file, p + 4, 1, readU32(file, p), count, <<>>)
                       IN  IF r.err # NoErr THEN [err |-> r.err, tree |-> NoTree]
                           ELSE loadNodes_childCountUnchecked(
                                    file, r.pos, i + 1, count,
                                    [nodes EXCEPT ![i] =
                                        [term |-> term, children |-> r.children]])

\* the loop over the node records, lines 265-302, from record i on, and the
\* return, lines 304-306
RECURSIVE loadNodes(_, _, _, _, _)
loadNodes(file, pos, i, count, nodes) ==
    IF i > count
    THEN [err |-> NoErr, tree |-> [nodes |-> nodes, root |-> IF count > 0 THEN 1 ELSE 0]]
    ELSE IF ~canRead(file, pos, 4)
    THEN LoadError("BKTree.load: failed to read term length")
    ELSE LET termLen == readU32(file, pos) IN
         IF ~canRead(file, pos + 4, termLen)
         THEN LoadError("BKTree.load: failed to read term data")
         ELSE LET term == SubSeq(file, pos + 5, pos + 4 + termLen)
                  p == pos + 4 + termLen
              IN  IF ~canRead(file, p, 4)
                  THEN LoadError("BKTree.load: failed to read child count")
                  ELSE LET r == loadChildren(file, p + 4, 1, readU32(file, p), count, <<>>)
                       IN  IF r.err # NoErr THEN [err |-> r.err, tree |-> NoTree]
                           ELSE loadNodes(file, r.pos, i + 1, count,
                                          [nodes EXCEPT ![i] =
                                              [term |-> term, children |-> r.children]])

\* the result of load(path), file being what the path holds (NoFile: the
\* file cannot be opened): the error thrown, or the tree
load(file) ==
    IF file = NoFile
    THEN LoadError("BKTree.load: unable to open file for reading")
    ELSE IF ~canRead(file, 0, 8) \/ SubSeq(file, 1, 8) # Magic
    THEN LoadError("BKTree.load: invalid file header")
    ELSE IF ~canRead(file, 8, 4)
    THEN LoadError("BKTree.load: failed to read node count")
    ELSE LET count == readU32(file, 8) IN
         loadNodes(file, 12, 1, count, [i \in 1..count |-> BKNode(<<>>)])

\* the offsets, in a file that save wrote, of the child index fields
RECURSIVE childIndexOffsets(_, _, _)
childIndexOffsets(file, pos, left) ==
    IF left = 0 THEN {}
    ELSE LET termLen == readU32(file, pos)
             p == pos + 4 + termLen
             childCount == readU32(file, p)
         IN  {p + 4 + 8 * (c - 1) + 4 : c \in 1..childCount}
             \cup childIndexOffsets(file, p + 4 + 8 * childCount, left - 1)

\* what a path may hold when load opens it, given the file `saved` that save
\* wrote there, each with the way it was derived: the file itself, each
\* proper prefix of it, the file with one byte of the tag changed, and the
\* file with one child index overwritten
FileInputs(saved) ==
    IF saved = NoFile THEN {[how |-> "missing", file |-> NoFile]}
    ELSE LET N == readU32(saved, 8) IN
         {[how |-> "missing", file |-> NoFile], [how |-> "intact", file |-> saved]}
         \cup {[how |-> "truncated", file |-> SubSeq(saved, 1, n)] :
                  n \in 0..(Len(saved) - 1)}
         \cup {[how |-> "tag", file |-> [saved EXCEPT ![i] = (@ + 1) % 256]] :
                  i \in 1..Len(Magic)}
         \cup {[how |-> IF j >= N THEN "index" ELSE "relinked",
                file |-> [k \in 1..Len(saved) |->
                            IF k \in (o + 1)..(o + 4) THEN U32Bytes(j)[k - o]
                            ELSE saved[k]]] :
                  o \in childIndexOffsets(saved, 12, N), j \in 0..N}

Init ==
    /\ tree = EmptyTree
    /\ disk = NoFile
    /\ out = NoOut

\* cppmatch.levenshtein(s1, s2)
Levenshtein ==
    /\ out = NoOut
    /\ \E s1 \in LevStrings, s2 \in LevStrings :
          out' = [op |-> "levenshtein", s1 |-> s1, s2 |-> s2,
                  ret |-> levenshtein(s1, s2)]
    /\ UNCHANGED <<tree, disk>>

\* the client drops the value a call returned and goes on to its next call
Forget ==
    /\ out # NoOut
    /\ out' = NoOut
    /\ UNCHANGED <<tree, disk>>

\* tree.insert(term)
Insert ==
    /\ out = NoOut
    /\ \E term \in Terms :
          /\ Len(tree.nodes) < MaxNodes \/ term \in StoredTerms(tree)
          /\ tree' = insert(tree, term)
          /\ out' = [op |-> "insert", term |-> term, before |-> tree]
    /\ UNCHANGED disk

\* tree.search(query, maxdist)
Search ==
    /\ out = NoOut
    /\ \E query \in Terms, maxDist \in MaxDists, build \in Builds :
          out' = [op |-> "search", query |-> query, maxDist |-> maxDist,
                  build |-> build, ret |-> search(tree, query, maxDist, build)]
    /\ UNCHANGED <<tree, disk>>

\* tree.to_serializable()
ToSerializable ==
    /\ out = NoOut
    /\ out' = [op |-> "to_serializable", ret |-> to_serializable(tree)]
    /\ UNCHANGED <<tree, disk>>

\* BKTree.from_serializable(data)
FromSerializable ==
    /\ out = NoOut
    /\ \E data \in SerializableInputs(to_serializable(tree)) :
          LET r == from_serializable(data) IN
          out' = [op |-> "from_serializable", data |-> data,
                  err |-> r.err, tree |-> r.tree]
    /\ UNCHANGED <<tree, disk>>

\* tree.save(path): the file is opened and written, or cannot be opened
Save ==
    /\ out = NoOut
    /\ \E opened \in BOOLEAN :
          IF opened
          THEN /\ disk' = saveBytes(tree)
               /\ out' = [op |-> "save", err |-> NoErr]
          ELSE /\ disk' = disk
               /\ out' = [op |-> "save",
                          err |-> RuntimeError("BKTree.save: unable to open file for writing")]
    /\ UNCHANGED tree

\* BKTree.load(path)
Load ==
    /\ out = NoOut
    /\ \E input \in FileInputs(disk) :
          LET r == load(input.file) IN
          out' = [op |-> "load", how |-> input.how, err |-> r.err, tree |-> r.tree]
    /\ UNCHANGED <<tree, disk>>

NextLev == Levenshtein \/ Forget

SpecLev == Init /\ [][NextLev]_vars

NextInsert == Insert \/ Forget

SpecInsert == Init /\ [][NextInsert]_vars

NextSearch == Insert \/ Search \/ Forget

SpecSearch == Init /\ [][NextSearch]_vars

NextSerializable == Insert \/ ToSerializable \/ FromSerializable \/ Forget

SpecSerializable == Init /\ [][NextSerializable]_vars

NextFile == Insert \/ Save \/ Load \/ Forget

SpecFile == Init /\ [][NextFile]_vars

Next ==
    \/ Levenshtein
    \/ Insert
    \/ Search
    \/ ToSerializable
    \/ FromSerializable
    \/ Save
    \/ Load
    \/ Forget

Spec == Init /\ [][Next]_vars

-----------------------------------------------------------------------------
(* C2: levenshtein is a metric.  The value a call levenshtein(s1, s2)
   returned is never negative, is 0 exactly when s1 = s2, equals the value of
   the call with the arguments swapped, is len(s2) when s1 is empty, and is at
   most levenshtein(s1, b) + levenshtein(b, s2) for every string b. *)
C2_LevenshteinIsMetric ==
    out.op = "levenshtein" =>
        /\ out.ret >= 0
        /\ (out.ret = 0) <=> (out.s1 = out.s2)
        /\ out.ret = levenshtein(out.s2, out.s1)
        /\ (out.s1 = <<>>) => (out.ret = Len(out.s2))
        /\ \A b \in LevStrings :
              out.ret <= levenshtein(out.s1, b) + levenshtein(b, out.s2)

\* a call on two different non-empty strings of full length has returned
C2_Witness ==
    /\ out.op = "levenshtein"
    /\ Len(out.s1) = MaxLevLen
    /\ Len(out.s2) = MaxLevLen
    /\ out.ret = MaxLevLen

-----------------------------------------------------------------------------
\* the pairs search must return: the stored terms within maxDist of the query
Matches(t, query, maxDist) ==
    {<<s, levenshtein(s, query)>> : s \in {x \in StoredTerms(t) : levenshtein(x, query) <= maxDist}}

\* rs lists exactly the pairs of S, each once, by distance and then by term
ListsSorted(rs, S) ==
    /\ Len(rs) = Cardinality(S)
    /\ {rs[i] : i \in 1..Len(rs)} = S
    /\ \A i \in 1..Len(rs) : \A j \in (i + 1)..Len(rs) : resultLess(rs[i], rs[j])

(* C1: on a tree built by inserts, search(q, maxDist) with maxDist >= 0
   returns exactly the pairs (t, levenshtein(t, q)) of the stored terms t
   with levenshtein(t, q) <= maxDist, each once, ordered by distance and then
   by term. *)
C1_SearchReturnsExactlyTheMatches ==
    (out.op = "search" /\ out.maxDist >= 0) =>
        ListsSorted(out.ret, Matches(tree, out.query, out.maxDist))

\* the same, for the radii at which no band bound overflows
C1_SearchExactForSmallRadius ==
    (out.op = "search" /\ out.maxDist >= 0 /\ out.maxDist <= MaxSmallDist) =>
        ListsSorted(out.ret, Matches(tree, out.query, out.maxDist))

(* C3: after any sequence of inserts every child entry (d, C) of every node N
   has d = levenshtein(N.term, C.term) and d >= 1, no node has two child
   entries with the same d, and no term is stored in two nodes. *)
C3_InsertKeepsTreeInvariant ==
    LET ns == tree.nodes IN
    /\ \A n \in 1..Len(ns) : \A k \in 1..Len(ns[n].children) :
          LET d == ns[n].children[k][1]
              c == ns[n].children[k][2]
          IN  /\ c \in 1..Len(ns)
              /\ d = levenshtein(ns[n].term, ns[c].term)
              /\ d >= 1
              /\ \A k2 \in 1..Len(ns[n].children) :
                    ns[n].children[k2][1] = d => k2 = k
    /\ \A n \in 1..Len(ns) : \A n2 \in 1..Len(ns) :
          ns[n].term = ns[n2].term => n = n2

\* a tree of MaxNodes nodes in which an insert descended below the root
C3_Witness ==
    /\ Len(tree.nodes) = MaxNodes
    /\ out.op = "insert"
    /\ \E n \in 2..Len(tree.nodes) : tree.nodes[n].children # <<>>

(* C4: insert(t) of a term t the tree already stores leaves the whole tree
   unchanged, and search(t, 0) then returns the single match (t, 0). *)
C4_InsertIsIdempotent ==
    (out.op = "insert" /\ out.term \in StoredTerms(out.before)) =>
        /\ tree = out.before
        /\ \A build \in Builds :
              search(tree, out.term, 0, build) = << <<out.term, 0>> >>

\* a term stored below the root has been inserted again
C4_Witness ==
    /\ out.op = "insert"
    /\ out.term \in StoredTerms(out.before)
    /\ Len(tree.nodes) >= 2
    /\ out.term # tree.nodes[tree.root].term

-----------------------------------------------------------------------------
\* the ids the child entries of node n point to
childIds(heap, n) == {heap[n].children[k][2] : k \in 1..Len(heap[n].children)}

\* the nodes reachable from the nodes of S
RECURSIVE reachable(_, _)
reachable(heap, S) ==
    LET S2 == S \cup UNION {childIds(heap, n) : n \in S}
    IN  IF S2 = S THEN S ELSE reachable(heap, S2)

\* the child entries, among the nodes of R, that point to node n
parentEntries(heap, R, n) ==
    UNION {{<<p, k>> : k \in {j \in 1..Len(heap[p].children) :
                                heap[p].children[j][2] = n}} : p \in R}

\* the root has no parent entry and every other reachable node exactly one;
\* then no node is reachable from itself either
IsRootedTree(t) ==
    t.root = 0 \/
    LET R == reachable(t.nodes, {t.root}) IN
    \A n \in R :
        Cardinality(parentEntries(t.nodes, R, n)) = IF n = t.root THEN 0 ELSE 1

\* a rooted tree written out from node n: the term, and per child entry, in
\* order, the distance and the child's subtree
RECURSIVE subtree(_, _)
subtree(heap, n) ==
    <<heap[n].term,
      [k \in 1..Len(heap[n].children) |->
          <<heap[n].children[k][1], subtree(heap, heap[n].children[k][2])>>]>>

Shape(t) == IF t.root = 0 THEN <<>> ELSE subtree(t.nodes, t.root)

ReachableTerms(t) ==
    IF t.root = 0 THEN {} ELSE {t.nodes[n].term : n \in reachable(t.nodes, {t.root})}

(* C5: for a tree T built by inserts, from_serializable(to_serializable(T))
   raises nothing and is a rooted tree with the same node terms, the same
   root term and the same shape as T (each node's child entries the same
   distances to the same subtrees, in the same order), and search on it
   returns what search on T returns, for every query and maxDist. *)
C5_IndexFormRoundTrip ==
    (out.op = "from_serializable" /\ out.data = to_serializable(tree)) =>
        /\ out.err = NoErr
        /\ IsRootedTree(out.tree)
        /\ ReachableTerms(out.tree) = StoredTerms(tree)
        /\ Shape(out.tree) = Shape(tree)
        /\ \A query \in Terms, maxDist \in MaxDists, build \in Builds :
              search(out.tree, query, maxDist, build)
                  = search(tree, query, maxDist, build)

\* a tree whose nodes collectNodes numbers in another order than they were
\* created in has made the round trip
C5_Witness ==
    /\ out.op = "from_serializable"
    /\ out.data = to_serializable(tree)
    /\ out.err = NoErr
    /\ Len(tree.nodes) = MaxNodes
    /\ out.tree # tree

(* C6: from_serializable on a list of N >= 1 records in which some child
   index, at any position, is >= N raises the out-of-range error and returns
   no tree. *)
C6_BadIndexRaisesOutOfRange ==
    ( /\ out.op = "from_serializable"
      /\ Len(out.data) >= 1
      /\ \E i \in 1..Len(out.data) : \E k \in 1..Len(out.data[i][2]) :
            out.data[i][2][k][2] >= Len(out.data) )
    => (out.err.kind = "out_of_range" /\ out.tree = NoTree)

\* the index equal to N, in the last child tuple of a record that is not the
\* first and has a good tuple before it
C6_Witness ==
    /\ out.op = "from_serializable"
    /\ \E i \in 2..Len(out.data) :
          LET cl == out.data[i][2] IN
          /\ Len(cl) >= 2
          /\ cl[Len(cl)][2] = Len(out.data)
          /\ cl[1][2] < Len(out.data)
    /\ out.err.kind = "out_of_range"

(* C7: load of a file whose first 8 bytes are not the tag, or that ends
   before everything it declares has been read, or that has a child index
   >= N, raises an error and returns no tree. *)
C7_LoadRejectsMalformedFile ==
    (out.op = "load" /\ out.how \in {"tag", "truncated", "index"}) =>
        (out.err # NoErr /\ out.tree = NoTree)

\* a file cut off inside the last record, after its term, was rejected
C7_Witness ==
    /\ out.op = "load"
    /\ out.how = "truncated"
    /\ out.err.what = "BKTree.load: failed to read child count"
    /\ Len(disk) > Len(saveBytes(EmptyTree))

(* C8: the error load raises when the file cannot be opened is of another
   kind than the error it raises for malformed content. *)
C8_OpenErrorIsOfAnotherKind ==
    (out.op = "load" /\ out.how \in {"tag", "truncated", "index"}) =>
        out.err.kind # load(NoFile).err.kind

(* C9: every tree obtainable through the interface (the trees inserts build,
   the trees from_serializable and load return) is a rooted tree: the root
   has no parent entry, every other reachable node exactly one, and there is
   no cycle. *)
C9_EveryTreeIsRooted ==
    /\ IsRootedTree(tree)
    /\ (out.op \in {"from_serializable", "load"} /\ out.err = NoErr)
           => IsRootedTree(out.tree)

\* the part of C9 that holds: the trees that inserts build are rooted trees
C9_InsertedTreeIsRooted == IsRootedTree(tree)

(* C10: for every maxDist in the range of int and every node distance d the
   band bounds d - maxDist and d + maxDist are computed without overflow, a
   child edge of weight w is descended exactly when
   d - maxDist <= w <= d + maxDist, and search(q, INT_MAX) returns every
   stored term. *)
C10_BandBoundsAreExact ==
    (out.op = "search" /\ tree.root # 0) =>
        LET node == tree.nodes[tree.root]
            d == levenshtein(node.term, out.query)
        IN  /\ ~SubOverflows(d, out.maxDist)
            /\ ~AddOverflows(d, out.maxDist)
            /\ \A k \in 1..Len(node.children) :
                  descends(node.children[k][1], d, out.maxDist, out.build)
                  <=> ( /\ geDifference(node.children[k][1], d, out.maxDist)
                        /\ leSum(node.children[k][1], d, out.maxDist) )
            /\ (out.maxDist = INT_MAX) =>
                  {out.ret[i][1] : i \in 1..Len(out.ret)} = StoredTerms(tree)

====
